---------------------------- MODULE Spec2Model ----------------------------
(***************************************************************************)
(* The LanceDB endpoints of backend/main.py: ensure_table_exists,          *)
(* vector_search, hybrid_search, insert_documents, delete_documents and    *)
(* create_table, run by server workers that share one LanceDB directory.   *)
(*                                                                         *)
(* A request is a sequence of store calls.  The calls of                   *)
(* ensure_table_exists (db.table_names, db.create_table, table.delete)     *)
(* are separate steps, so that requests of different workers interleave    *)
(* between them; the calls a handler makes after it are one step.          *)
(*                                                                         *)
(* The store is the collaborator behind db.* and table.*: a table is a bag *)
(* of rows; a vector query returns the k nearest rows in some order, a     *)
(* full-text query returns some matching rows in some order or raises, a   *)
(* delete removes the rows its filter string matches, and any call may     *)
(* raise.  Scores are kept exact: a score s of the code is the integer     *)
(* s * 2 * ScoreScale here.                                                *)
(*                                                                         *)
(* Spec is the server; FuseSpec is the fusion of hybrid_search alone, over *)
(* any two ranked lists.                                                   *)
(***************************************************************************)
EXTENDS Integers, Sequences, FiniteSets

\* ------------------------------------------------------------------ bounds
MaxRows == 3
MaxLimit == 2
MaxBatch == 2

Workers == {"w1", "w2"}
Tables == {"t1"}

\* ------------------------------------------------------------------ rows
\* A user row is named by its id.  SeedRow is the record db.create_table is
\* given: {"id": "placeholder", "text": "placeholder", "vector": zeros}.
\* Users supply two ids; one of them is the seed's, "placeholder".
SeedRow == "<seed:placeholder>"
DocIds == {"a", "placeholder"}
RowKinds == DocIds \cup {SeedRow}

\* An id that holds a double quote: the filter string built from it is
\*   id = "x" OR id != "x"
InjId == "x\" OR id != \"x"
RequestIds == DocIds \cup {InjId}

\* row.get('id', ...)
IdOf(row) == IF row = SeedRow THEN "placeholder" ELSE row

\* request.alpha, in halves: -1/2, 0, 1/2, 1, 3/2
Alpha2s == 0..3
Limits == 0..MaxLimit

Min(x, y) == IF x <= y THEN x ELSE y

Take(s, n) == SubSeq(s, 1, Min(n, Len(s)))

Range(s) == {s[i] : i \in 1..Len(s)}

Count(s, x) == Cardinality({i \in 1..Len(s) : s[i] = x})

EmptyBag == [r \in RowKinds |-> 0]

RECURSIVE SumOver(_, _)
SumOver(bag, S) ==
    IF S = {} THEN 0
    ELSE LET r == CHOOSE x \in S : TRUE IN bag[r] + SumOver(bag, S \ {r})

\* len(table): the number of rows of a table
Total(bag) == SumOver(bag, RowKinds)

SeqsUpTo(S, n) == UNION {[1..m -> S] : m \in 0..n}

\* ------------------------------------------------------------------ store
\* table.search(query_embedding).limit(k): the k nearest rows, nearest first.
\* The order is the embedding's; every order is possible.
VectorQuery(bag, k) ==
    {s \in [1..Min(k, Total(bag)) -> RowKinds] :
        \A r \in RowKinds : Count(s, r) <= bag[r]}

\* table.search(query, query_type="fts").limit(k): at most k of the rows that
\* match the query text, best first.
FtsQuery(bag, k) ==
    {s \in SeqsUpTo(RowKinds, Min(k, Total(bag))) :
        \A r \in RowKinds : Count(s, r) <= bag[r]}

\* Whether the filter string  f'id = "{doc_id}"'  selects a row.  For a
\* doc_id without a double quote it reads  id = "<doc_id>";  for InjId it
\* reads  id = "x" OR id != "x".
FilterMatches(doc_id, row) ==
    IF doc_id = InjId
    THEN (IdOf(row) = "x") \/ (IdOf(row) # "x")
    ELSE IdOf(row) = doc_id

\* table.delete(f'id = "{doc_id}"')
DeleteWhere(bag, doc_id) ==
    [r \in RowKinds |-> IF FilterMatches(doc_id, r) THEN 0 ELSE bag[r]]

RECURSIVE DeleteAll(_, _)
\* for doc_id in request.ids: table.delete(...)
DeleteAll(bag, ids) ==
    IF ids = << >> THEN bag
    ELSE DeleteAll(DeleteWhere(bag, Head(ids)), Tail(ids))

\* table.add(records): appends, whatever ids the table holds already
AddRows(bag, records) ==
    [r \in RowKinds |-> bag[r] + Count(records, r)]

\* db.create_table(name, data=[placeholder record])
SeedBag == [r \in RowKinds |-> IF r = SeedRow THEN 1 ELSE 0]

\* ------------------------------------------------------------------ fusion
RECURSIVE Fact(_)
Fact(n) == IF n <= 1 THEN 1 ELSE n * Fact(n - 1)

\* Every 1/(idx+1) met is a multiple of 1/ScoreScale.
ScoreScale == Fact(2 * MaxLimit)

\* Mutant of Score: the ranks are counted from 1, the score is 1 / (idx + 2).
ScoreFromOne(idx) == ScoreScale \div (idx + 2)

\* score = 1.0 / (idx + 1), in units of 1/ScoreScale
Score(idx) == ScoreScale \div (idx + 1)

\* The position of key doc_id in the dict `combined`, 0 if it is no key.
KeyPos(combined, doc_id) ==
    LET S == {i \in 1..Len(combined) : combined[i].id = doc_id}
    IN IF S = {} THEN 0 ELSE CHOOSE i \in S : TRUE

\* Mutant of SetItem: the candidates are kept in a list, a second hit of an
\* id is one more candidate.
SetItemAppends(combined, entry) == Append(combined, entry)

\* combined[doc_id] = entry: a dict keeps a key where it was first inserted.
SetItem(combined, entry) ==
    LET p == KeyPos(combined, entry.id)
    IN IF p = 0 THEN Append(combined, entry)
       ELSE [combined EXCEPT ![p] = entry]

RECURSIVE VectorPass(_, _, _, _)
\* for idx, row in vector_results.iterrows(): ...
VectorPass(combined, vector_results, idx, alpha2) ==
    IF idx >= Len(vector_results) THEN combined
    ELSE LET row == vector_results[idx + 1]
             entry == [id |-> IdOf(row), data |-> row,
                       vector_score |-> Score(idx) * (2 - alpha2),
                       keyword_score |-> 0]
         IN VectorPass(SetItem(combined, entry), vector_results, idx + 1, alpha2)

RECURSIVE KeywordPass(_, _, _, _)
\* for idx, row in keyword_results.iterrows(): ...
KeywordPass(combined, keyword_results, idx, alpha2) ==
    IF idx >= Len(keyword_results) THEN combined
    ELSE LET row == keyword_results[idx + 1]
             p == KeyPos(combined, IdOf(row))
             next == IF p # 0
                     THEN [combined EXCEPT
                             ![p].keyword_score = Score(idx) * alpha2]
                     ELSE Append(combined,
                                 [id |-> IdOf(row), data |-> row,
                                  vector_score |-> 0,
                                  keyword_score |-> Score(idx) * alpha2])
         IN KeywordPass(next, keyword_results, idx + 1, alpha2)

\* key=lambda x: x[1]['vector_score'] + x[1]['keyword_score']
SortKey(entry) == entry.vector_score + entry.keyword_score

\* Mutant of InsertSorted: a sort that is not stable, entries with equal
\* keys come out in reverse.
InsertSortedUnstable(sorted, e) ==
    LET n == Cardinality({i \in 1..Len(sorted) :
                             sorted[i].vector_score + sorted[i].keyword_score
                               > e.vector_score + e.keyword_score})
    IN SubSeq(sorted, 1, n) \o <<e>> \o SubSeq(sorted, n + 1, Len(sorted))

\* Where sorted(..., reverse=True) puts e among the entries placed so far:
\* behind every entry whose key is not smaller (the sort is stable).
InsertSorted(sorted, e) ==
    LET n == Cardinality({i \in 1..Len(sorted) : SortKey(sorted[i]) >= SortKey(e)})
    IN SubSeq(sorted, 1, n) \o <<e>> \o SubSeq(sorted, n + 1, Len(sorted))

RECURSIVE SortedDesc(_)
\* sorted(combined.items(), key=..., reverse=True)
SortedDesc(combined) ==
    IF combined = << >> THEN << >>
    ELSE InsertSorted(SortedDesc(SubSeq(combined, 1, Len(combined) - 1)),
                      combined[Len(combined)])

\* sorted(...)[:request.limit]
Ranked(combined, limit) == Take(SortedDesc(combined), limit)

\* The results of hybrid_search for the two ranked lists: one item per
\* ranked entry, item['_score'] the sum of its two scores.
Fuse(vector_results, keyword_results, limit, alpha2) ==
    LET combined == KeywordPass(VectorPass(<< >>, vector_results, 0, alpha2),
                                keyword_results, 0, alpha2)
        ranked == Ranked(combined, limit)
    IN [i \in 1..Len(ranked) |->
          [id |-> ranked[i].id, data |-> ranked[i].data,
           vector_score |-> ranked[i].vector_score,
           keyword_score |-> ranked[i].keyword_score,
           score |-> ranked[i].vector_score + ranked[i].keyword_score]]

\* results.to_dict(orient='records') of vector_search: the rows as returned
PlainItems(vector_results) ==
    [i \in 1..Len(vector_results) |->
          [id |-> IdOf(vector_results[i]), data |-> vector_results[i],
           vector_score |-> 0, keyword_score |-> 0, score |-> 0]]

\* ------------------------------------------------------------------ state
VARIABLES
    table_names,   \* db.table_names(): the tables of the store
    rows,          \* rows[t]: the rows of table t, a bag over RowKinds
    pc,            \* pc[w]: where worker w is in the request it handles
    req,           \* req[w]: the endpoint and request.table of that request
    calls,         \* calls[w]: the collaborator calls the request has made
    deleted,       \* deleted[t]: ids removed by a completed delete_documents
                   \*   and not added to t since
    last           \* the response sent by the step just taken (NoResp if none)

vars == <<table_names, rows, pc, req, calls, deleted, last>>

EnsureKinds == {"vector_search", "hybrid_search", "insert_documents"}
Kinds == EnsureKinds \cup {"delete_documents", "create_table"}

NoReq == [kind |-> "none", table |-> "none"]

NoResp ==
    [kind |-> "none", table |-> "none", status |-> 0, cause |-> "none",
     calls |-> {}, limit |-> 0, alpha2 |-> 0, fts |-> "none",
     vector_results |-> << >>, keyword_results |-> << >>, results |-> << >>,
     ids |-> << >>, inserted |-> 0, embedded |-> 0, before |-> EmptyBag]

Init ==
    /\ table_names = {}
    /\ rows = [t \in Tables |-> EmptyBag]
    /\ pc = [w \in Workers |-> "idle"]
    /\ req = [w \in Workers |-> NoReq]
    /\ calls = [w \in Workers |-> {}]
    /\ deleted = [t \in Tables |-> {}]
    /\ last = NoResp

\* The status of the HTTPException a handler raises from
\*   except Exception as e: raise HTTPException(status_code=500, detail=str(e))
\* whatever the status of the exception it caught.
HandlerExcept(exc) == 500

\* The response of worker w's request, so far.
Resp(w, status, cause, made) ==
    [NoResp EXCEPT !.kind = req[w].kind, !.table = req[w].table,
                   !.status = status, !.cause = cause,
                   !.calls = calls[w] \cup made,
                   !.before = rows[req[w].table]]

\* No response is on its way out.
Ready == last = NoResp

\* The response sent by the last step has left the server.
Deliver ==
    /\ last # NoResp
    /\ last' = NoResp
    /\ UNCHANGED <<table_names, rows, pc, req, calls, deleted>>

\* Worker w sends response r and is free again.
Reply(w, r) ==
    /\ pc' = [pc EXCEPT ![w] = "idle"]
    /\ req' = [req EXCEPT ![w] = NoReq]
    /\ calls' = [calls EXCEPT ![w] = {}]
    /\ last' = r

\* Worker w goes on to step p of its request, having made the calls `made`.
Goto(w, p, made) ==
    /\ pc' = [pc EXCEPT ![w] = p]
    /\ calls' = [calls EXCEPT ![w] = @ \cup made]
    /\ last' = NoResp
    /\ UNCHANGED req

\* Exception exc is raised inside worker w's try block, after the calls
\* `made`: the handler answers with HandlerExcept(exc).
Raise(w, exc, made) == Reply(w, Resp(w, HandlerExcept(exc), exc, made))

\* A request for an endpoint arrives at an idle worker.
Receive(w, kind, t) ==
    /\ Ready
    /\ pc[w] = "idle"
    /\ pc' = [pc EXCEPT ![w] = "check"]
    /\ req' = [req EXCEPT ![w] = [kind |-> kind, table |-> t]]
    /\ last' = NoResp
    /\ UNCHANGED <<table_names, rows, calls, deleted>>

\* The store call of the step at pc[w].
StoreCallAt(p) ==
    CASE p = "check" -> "table_names"
      [] p = "create" -> "create_table"
      [] p = "unseed" -> "delete"

\* db.table_names(), db.create_table() or the placeholder's table.delete()
\* raises: the handler's except turns it into a 500.
StoreFails(w) ==
    /\ Ready
    /\ pc[w] \in {"check", "create", "unseed"}
    /\ Raise(w, "store", {StoreCallAt(pc[w])})
    /\ UNCHANGED <<table_names, rows, deleted>>

\* Mutant of ensure_table_exists_present: the placeholder is deleted on every
\* call, not only after a creation.
ensure_table_exists_always_deletes(w) ==
    /\ last = NoResp
    /\ pc[w] = "check"
    /\ req[w].kind \in EnsureKinds
    /\ req[w].table \in table_names
    /\ rows' = [rows EXCEPT ![req[w].table] = DeleteWhere(@, "placeholder")]
    /\ pc' = [pc EXCEPT ![w] = "body"]
    /\ calls' = [calls EXCEPT ![w] = @ \cup {"table_names", "delete"}]
    /\ last' = NoResp
    /\ UNCHANGED <<req, table_names, deleted>>

\* if table_name not in db.table_names(): the table is there, nothing to do
ensure_table_exists_present(w) ==
    /\ Ready
    /\ pc[w] = "check"
    /\ req[w].kind \in EnsureKinds
    /\ req[w].table \in table_names
    /\ Goto(w, "body", {"table_names"})
    /\ UNCHANGED <<table_names, rows, deleted>>

\* if table_name not in db.table_names(): the table is missing
ensure_table_exists_absent(w) ==
    /\ Ready
    /\ pc[w] = "check"
    /\ req[w].kind \in EnsureKinds
    /\ req[w].table \notin table_names
    /\ Goto(w, "create", {"table_names"})
    /\ UNCHANGED <<table_names, rows, deleted>>

\* db.create_table(table_name, data=[placeholder]) on a name not taken
db_create_table(w) ==
    /\ Ready
    /\ pc[w] = "create"
    /\ req[w].table \notin table_names
    /\ table_names' = table_names \cup {req[w].table}
    /\ rows' = [rows EXCEPT ![req[w].table] = SeedBag]
    /\ Goto(w, "unseed", {"create_table"})
    /\ UNCHANGED deleted

\* db.create_table on a name another request has created since the check:
\* the store raises, the handler's except turns it into a 500.
db_create_table_conflict(w) ==
    /\ Ready
    /\ pc[w] = "create"
    /\ req[w].table \in table_names
    /\ Raise(w, "table_exists", {"create_table"})
    /\ UNCHANGED <<table_names, rows, deleted>>

\* table = db.open_table(table_name); table.delete('id = "placeholder"')
ensure_table_exists_delete(w) ==
    /\ Ready
    /\ pc[w] = "unseed"
    /\ req[w].kind \in EnsureKinds
    /\ rows' = [rows EXCEPT ![req[w].table] = DeleteWhere(@, "placeholder")]
    /\ Goto(w, "body", {"delete"})
    /\ UNCHANGED <<table_names, deleted>>

\* create_table: if request.table in db.table_names(): return "exists"
create_table_present(w) ==
    /\ Ready
    /\ pc[w] = "check"
    /\ req[w].kind = "create_table"
    /\ req[w].table \in table_names
    /\ Reply(w, Resp(w, 200, "exists", {"table_names"}))
    /\ UNCHANGED <<table_names, rows, deleted>>

\* create_table: the table is missing, go on to db.create_table
create_table_absent(w) ==
    /\ Ready
    /\ pc[w] = "check"
    /\ req[w].kind = "create_table"
    /\ req[w].table \notin table_names
    /\ Goto(w, "create", {"table_names"})
    /\ UNCHANGED <<table_names, rows, deleted>>

\* create_table: table.delete('id = "placeholder"'); return "Table created"
create_table_delete(w) ==
    /\ Ready
    /\ pc[w] = "unseed"
    /\ req[w].kind = "create_table"
    /\ rows' = [rows EXCEPT ![req[w].table] = DeleteWhere(@, "placeholder")]
    /\ Reply(w, Resp(w, 200, "created", {"delete"}))
    /\ UNCHANGED <<table_names, deleted>>

\* delete_documents: if request.table not in db.table_names():
\*     raise HTTPException(status_code=404, ...)      -- inside the try block
delete_documents_absent(w) ==
    /\ Ready
    /\ pc[w] = "check"
    /\ req[w].kind = "delete_documents"
    /\ req[w].table \notin table_names
    /\ Raise(w, "http_404", {"table_names"})
    /\ UNCHANGED <<table_names, rows, deleted>>

\* delete_documents: the table is there
delete_documents_present(w) ==
    /\ Ready
    /\ pc[w] = "check"
    /\ req[w].kind = "delete_documents"
    /\ req[w].table \in table_names
    /\ Goto(w, "body", {"table_names"})
    /\ UNCHANGED <<table_names, rows, deleted>>

\* delete_documents: for doc_id in request.ids: table.delete(f'id = "{doc_id}"')
\* The n-th delete may raise, the deletes before it stay done.
delete_documents(w) ==
    /\ Ready
    /\ pc[w] = "body"
    /\ req[w].kind = "delete_documents"
    /\ \E ids \in SeqsUpTo(RequestIds, MaxBatch) \ {<< >>} :
       LET t == req[w].table IN
       \/ /\ rows' = [rows EXCEPT ![t] = DeleteAll(@, ids)]
          /\ deleted' = [deleted EXCEPT ![t] = @ \cup (Range(ids) \cap DocIds)]
          /\ Reply(w, [Resp(w, 200, "ok", {"delete"}) EXCEPT !.ids = ids])
       \/ \E n \in 1..Len(ids) :
          /\ rows' = [rows EXCEPT ![t] = DeleteAll(@, SubSeq(ids, 1, n - 1))]
          /\ Reply(w, [Resp(w, HandlerExcept("store"), "store", {"delete"})
                         EXCEPT !.ids = ids])
          /\ UNCHANGED deleted
    /\ UNCHANGED table_names

\* Mutant of RowsAfterEmbeddingFailure: every record is added to the table as
\* soon as it is built, so those built before the failure are in the table.
RowsAfterEmbeddingFailureEager(bag, docs, n) ==
    AddRows(bag, SubSeq(docs, 1, n - 1))

\* What the table holds when get_embedding raises at the n-th document of the
\* batch: the records built so far are in the local list `records` only.
RowsAfterEmbeddingFailure(bag, docs, n) == bag

\* insert_documents: one get_embedding per document, then table.add(records).
\* get_embedding may raise at any document (`embedded` documents were embedded
\* before it), table.add may raise.
insert_documents(w) ==
    /\ Ready
    /\ pc[w] = "body"
    /\ req[w].kind = "insert_documents"
    /\ \E docs \in SeqsUpTo(DocIds, MaxBatch) \ {<< >>} :
       LET t == req[w].table IN
       /\ Total(rows[t]) + Len(docs) <= MaxRows
       /\ \/ /\ rows' = [rows EXCEPT ![t] = AddRows(@, docs)]
             /\ deleted' = [deleted EXCEPT ![t] = @ \ Range(docs)]
             /\ Reply(w, [Resp(w, 200, "ok", {"embed", "add"})
                            EXCEPT !.ids = docs, !.inserted = Len(docs),
                                   !.embedded = Len(docs)])
          \/ \E n \in 1..Len(docs) :
             /\ rows' = [rows EXCEPT
                           ![t] = RowsAfterEmbeddingFailure(@, docs, n)]
             /\ Reply(w, [Resp(w, HandlerExcept("embedding"), "embedding",
                                {"embed"})
                            EXCEPT !.ids = docs, !.embedded = n - 1])
             /\ UNCHANGED deleted
          \/ /\ Reply(w, [Resp(w, HandlerExcept("store"), "store", {"embed", "add"})
                            EXCEPT !.ids = docs, !.embedded = Len(docs)])
             /\ UNCHANGED <<rows, deleted>>
    /\ UNCHANGED table_names

\* vector_search: get_embedding, table.search(...).limit(request.limit)
vector_search(w) ==
    /\ Ready
    /\ pc[w] = "body"
    /\ req[w].kind = "vector_search"
    /\ \E limit \in Limits :
       \/ Raise(w, "embedding", {"embed"})
       \/ Raise(w, "store", {"embed", "vector_query"})
       \/ \E vector_results \in VectorQuery(rows[req[w].table], limit) :
            Reply(w, [Resp(w, 200, "ok", {"embed", "vector_query"})
                        EXCEPT !.limit = limit,
                               !.vector_results = vector_results,
                               !.results = PlainItems(vector_results)])
    /\ UNCHANGED <<table_names, rows, deleted>>

\* What the full-text query can do: return rows, raise because the table has
\* no full-text index, or raise because the store fails.
FtsOutcomes == {"ok", "unsupported", "store"}

\* keyword_results of hybrid_search: the query's rows, or, from the bare
\* except, vector_results.head(0)
KeywordResults(bag, outcome, k) ==
    IF outcome = "ok" THEN FtsQuery(bag, k) ELSE {<< >>}

\* hybrid_search: get_embedding, the vector query for limit * 2 rows, the
\* full-text query for limit * 2 rows, and the fusion of the two lists.
hybrid_search(w) ==
    /\ Ready
    /\ pc[w] = "body"
    /\ req[w].kind = "hybrid_search"
    /\ \E limit \in Limits, alpha2 \in Alpha2s :
       LET R(cause, made) ==
             [Resp(w, HandlerExcept(cause), cause, made)
                EXCEPT !.limit = limit, !.alpha2 = alpha2]
       IN
       \/ Reply(w, R("embedding", {"embed"}))
       \/ Reply(w, R("store", {"embed", "vector_query"}))
       \/ \E vector_results \in VectorQuery(rows[req[w].table], limit * 2),
             outcome \in FtsOutcomes :
          \E keyword_results \in
                 KeywordResults(rows[req[w].table], outcome, limit * 2) :
            Reply(w, [Resp(w, 200, "ok", {"embed", "vector_query", "fts_query"})
                        EXCEPT !.limit = limit, !.alpha2 = alpha2,
                               !.fts = outcome,
                               !.vector_results = vector_results,
                               !.keyword_results = keyword_results,
                               !.results = Fuse(vector_results, keyword_results,
                                                limit, alpha2)])
    /\ UNCHANGED <<table_names, rows, deleted>>

Next ==
    \/ \E w \in Workers, kind \in Kinds, t \in Tables : Receive(w, kind, t)
    \/ \E w \in Workers : StoreFails(w)
    \/ \E w \in Workers : ensure_table_exists_present(w)
    \/ \E w \in Workers : ensure_table_exists_absent(w)
    \/ \E w \in Workers : db_create_table(w)
    \/ \E w \in Workers : db_create_table_conflict(w)
    \/ \E w \in Workers : ensure_table_exists_delete(w)
    \/ \E w \in Workers : create_table_present(w)
    \/ \E w \in Workers : create_table_absent(w)
    \/ \E w \in Workers : create_table_delete(w)
    \/ \E w \in Workers : delete_documents_absent(w)
    \/ \E w \in Workers : delete_documents_present(w)
    \/ \E w \in Workers : delete_documents(w)
    \/ \E w \in Workers : insert_documents(w)
    \/ \E w \in Workers : vector_search(w)
    \/ \E w \in Workers : hybrid_search(w)
    \/ Deliver

Spec == Init /\ [][Next]_vars

\* ------------------------------------------------------------------ fusion alone
\* The fusion of hybrid_search (from `combined = {}` to `return`) as a function
\* of the two lists it is given.  The lists come from two store calls, and the
\* rows of the table may be written by another worker between them, so the
\* keyword list is not bound to the rows the vector list was taken from: each
\* is any list of at most limit * 2 user rows, no id twice.
RankedLists(k) ==
    {s \in SeqsUpTo(DocIds, k) : \A i, j \in 1..Len(s) : s[i] = s[j] => i = j}

\* hybrid_search, its two queries answered with any two lists.
hybrid_search_fusion ==
    /\ Ready
    /\ \E t \in Tables, limit \in Limits, alpha2 \in Alpha2s :
       \E vector_results \in RankedLists(limit * 2),
          keyword_results \in RankedLists(limit * 2) :
         last' = [NoResp EXCEPT
                    !.kind = "hybrid_search", !.table = t,
                    !.status = 200, !.cause = "ok",
                    !.calls = {"table_names", "embed", "vector_query",
                               "fts_query"},
                    !.limit = limit, !.alpha2 = alpha2, !.fts = "ok",
                    !.vector_results = vector_results,
                    !.keyword_results = keyword_results,
                    !.results = Fuse(vector_results, keyword_results,
                                     limit, alpha2)]
    /\ UNCHANGED <<table_names, rows, pc, req, calls, deleted>>

FuseNext ==
    \/ hybrid_search_fusion
    \/ Deliver

FuseSpec == Init /\ [][FuseNext]_vars

\* ------------------------------------------------------------------ claims
ItemIds(items) == [i \in 1..Len(items) |-> items[i].id]

RowIds(list) == [i \in 1..Len(list) |-> IdOf(list[i])]

NoDuplicates(s) == \A i, j \in 1..Len(s) : s[i] = s[j] => i = j

ValidAlpha2s == 0..2

Hybrid == last.kind = "hybrid_search"

HybridOk == Hybrid /\ last.status = 200

RECURSIVE KeepFirst(_)
\* s without the later occurrences of its elements
KeepFirst(s) ==
    IF s = << >> THEN << >>
    ELSE LET front == KeepFirst(SubSeq(s, 1, Len(s) - 1))
             x == s[Len(s)]
         IN IF x \in Range(front) THEN front ELSE Append(front, x)

Reverse(s) == [i \in 1..Len(s) |-> s[Len(s) + 1 - i]]

\* s without the earlier occurrences of its elements
KeepLast(s) == Reverse(KeepFirst(Reverse(s)))

Without(s, S) == LET Keep(x) == x \notin S IN SelectSeq(s, Keep)

\* C1: a successful hybrid_search with alpha in [0,1] and limit >= 0 returns
\* at most limit items, no two of them with the same id, also from a table
\* that holds several rows with one id; with limit = 0 a search whose
\* queries were answered returns the empty list and no error.
C1_AtMostLimitNoDuplicates ==
    (Hybrid /\ last.alpha2 \in ValidAlpha2s) =>
        /\ last.status = 200 =>
              /\ Len(last.results) <= last.limit
              /\ NoDuplicates(ItemIds(last.results))
        /\ last.limit = 0 =>
              /\ last.results = << >>
              /\ "fts_query" \in last.calls => last.status = 200

\* C1 witness: a search whose vector list holds one id twice and whose
\* candidates are more than limit, cut to exactly limit >= 1 items.
C1_Witness ==
    /\ HybridOk
    /\ last.alpha2 \in ValidAlpha2s
    /\ last.limit >= 1
    /\ ~NoDuplicates(RowIds(last.vector_results))
    /\ Cardinality(Range(RowIds(last.vector_results))
                   \cup Range(RowIds(last.keyword_results))) > last.limit
    /\ Len(last.results) = last.limit
    /\ last.before[SeedRow] = 0

\* C2 (as claimed): with alpha = 0 a successful hybrid_search returns the
\* first ids of the vector list, in that order, up to limit of them, and no
\* id that is only in the keyword list.  (An id the list holds twice is read
\* as standing at its first, best, rank: no result holds an id twice.  The
\* table searched holds user rows only.)
C2_AlphaZeroIsVectorOrder ==
    (HybridOk /\ last.alpha2 = 0 /\ last.before[SeedRow] = 0) =>
        /\ ItemIds(last.results) =
              Take(KeepFirst(RowIds(last.vector_results)), last.limit)
        /\ Range(ItemIds(last.results)) \subseteq
              Range(RowIds(last.vector_results))

\* C3 (as claimed): with alpha = 1 and a full-text query that succeeds, a
\* successful hybrid_search returns the first min(limit, |keyword list|) ids
\* of the keyword list, in that order.  (The table searched holds user rows
\* only.)
C3_AlphaOneIsKeywordOrder ==
    (/\ HybridOk
     /\ last.alpha2 = 2
     /\ last.fts = "ok"
     /\ last.before[SeedRow] = 0) =>
        ItemIds(last.results) =
            Take(RowIds(last.keyword_results),
                 Min(last.limit, Len(last.keyword_results)))

\* C3 (amended): with alpha = 1 and a full-text query that succeeds, the
\* result is the first limit ids of: the ids of the keyword list in keyword
\* rank order (an id met twice at the rank of its last occurrence), followed
\* by the ids that are only in the vector list, in vector rank order.
C3_AlphaOneKeywordFirstThenVector ==
    (HybridOk /\ last.alpha2 = 2 /\ last.fts = "ok") =>
        LET kw == KeepLast(RowIds(last.keyword_results))
            vec == Without(KeepFirst(RowIds(last.vector_results)), Range(kw))
        IN ItemIds(last.results) = Take(kw \o vec, last.limit)

\* C3 witness: alpha = 1, the keyword list has hits but fewer than limit, and
\* the result goes on with an id that is only in the vector list.
C3_Witness ==
    /\ HybridOk
    /\ last.alpha2 = 2
    /\ last.fts = "ok"
    /\ last.keyword_results # << >>
    /\ Len(last.results) > Len(last.keyword_results)
    /\ Cardinality(Range(RowIds(last.vector_results))
                   \ Range(RowIds(last.keyword_results))) >= 1
    /\ last.limit > Len(last.keyword_results)
    /\ last.before[SeedRow] = 0

\* C4: the existence check of ensure_table_exists or of create_table on a
\* table that exists, once the store has answered it, changes no table and no
\* row (a user row with id "placeholder" included) and raises no error: the
\* request goes on, or create_table answers 200 "exists".
C4_EnsureExistingIsNoOp ==
    [][\A w \in Workers :
         (/\ pc[w] = "check"
          /\ pc'[w] # "check"
          /\ req[w].kind \in EnsureKinds \cup {"create_table"}
          /\ req[w].table \in table_names
          /\ last'.cause # "store")
         => /\ rows' = rows
            /\ table_names' = table_names
            /\ IF req[w].kind = "create_table"
               THEN last'.status = 200 /\ last'.cause = "exists"
               ELSE pc'[w] = "body" /\ last' = NoResp]_vars

\* C4 witness: a request is past an ensure_table_exists that found its table,
\* and the table still holds a user row with id "placeholder".
C4_Witness ==
    \E w \in Workers :
        /\ pc[w] = "body"
        /\ req[w].kind \in EnsureKinds
        /\ calls[w] = {"table_names"}
        /\ rows[req[w].table]["placeholder"] >= 1

\* C5 (as claimed): a db.create_table that meets a table created since the
\* check is taken as success, the call does not answer with an error; and
\* the placeholder's delete after a creation takes no user row with it.
C5_RaceBothSucceed ==
    [][\A w \in Workers :
         /\ (/\ pc[w] = "create"
             /\ pc'[w] # "create"
             /\ req[w].table \in table_names
             /\ last'.cause # "store")
            => last'.status # 500
         /\ (pc[w] = "unseed" /\ pc'[w] # "unseed")
            => \A r \in DocIds :
                 rows'[req[w].table][r] = rows[req[w].table][r]]_vars

\* C6 (as claimed): past ensure_table_exists the table exists, and no
\* vector_search or hybrid_search returns the seed record.
C6_PlaceholderNeverReturned ==
    /\ \A w \in Workers :
         (pc[w] = "body" /\ req[w].kind \in EnsureKinds)
            => req[w].table \in table_names
    /\ last.kind \in {"vector_search", "hybrid_search"}
         => \A i \in 1..Len(last.results) : last.results[i].data # SeedRow

\* C7 (as claimed): when the full-text query is not supported, a
\* hybrid_search with alpha in [0,1] that got its vector list succeeds with
\* an empty keyword list, keyword score 0 in every item, and the ids of the
\* vector list in vector rank order, cut to limit.  (An id the list holds
\* twice is read as standing at its first, best, rank.  The table searched
\* holds user rows only.)
C7_UnsupportedFtsIsVectorOrder ==
    (/\ Hybrid
     /\ last.fts = "unsupported"
     /\ last.alpha2 \in ValidAlpha2s
     /\ last.before[SeedRow] = 0) =>
        /\ last.status = 200
        /\ last.keyword_results = << >>
        /\ \A i \in 1..Len(last.results) : last.results[i].keyword_score = 0
        /\ ItemIds(last.results) =
              Take(KeepFirst(RowIds(last.vector_results)), last.limit)

\* C8 (as claimed): a successful hybrid_search returns no id that a completed
\* delete_documents removed from its table and no insert_documents has added
\* since; and a successful delete_documents leaves every user row whose id
\* is not among request.ids.
C8_DeletedStayDeleted ==
    /\ HybridOk =>
         \A i \in 1..Len(last.results) :
            last.results[i].id \notin deleted[last.table]
    /\ (last.kind = "delete_documents" /\ last.status = 200) =>
         \A r \in DocIds :
            IdOf(r) \notin Range(last.ids)
               => rows[last.table][r] = last.before[r]

\* C9 (as claimed): delete_documents on a table that does not exist answers
\* 404, which is not the status of a store call that fails, creates no table
\* and changes no row.
C9_DeleteAbsentIsNotFound ==
    (last.kind = "delete_documents" /\ last.cause = "http_404") =>
        /\ last.status = 404
        /\ last.status # HandlerExcept("store")
        /\ last.table \notin table_names
        /\ rows[last.table] = last.before

\* C10 (as claimed): a hybrid_search with alpha outside [0,1] answers with a
\* client error and has called neither the embedding provider nor a query of
\* the store, and has created no table.
C10_InvalidAlphaRejected ==
    (Hybrid /\ last.alpha2 \notin ValidAlpha2s) =>
        /\ last.status \in 400..499
        /\ last.calls \cap {"embed", "vector_query", "fts_query", "create_table"}
              = {}

\* C11: insert_documents is all-or-nothing.  When get_embedding fails at any
\* document of the batch the call answers with an error and the table holds
\* what it held before (none of the documents embedded before the failing
\* one); when the call succeeds the table holds, for every id, one more
\* record per document of the batch with that id, and nothing else has
\* changed, and the returned count is the number of documents.
C11_IngestAllOrNothing ==
    (last.kind = "insert_documents" /\ "embed" \in last.calls) =>
        /\ last.cause = "embedding" =>
              /\ last.status >= 400
              /\ rows[last.table] = last.before
        /\ last.status = 200 =>
              /\ \A r \in RowKinds :
                    rows[last.table][r] = last.before[r] + Count(last.ids, r)
              /\ Total(rows[last.table]) =
                    Total(last.before) + Len(last.ids)
              /\ last.inserted = Len(last.ids)
        /\ last.status \in {200, 500}

\* C11 witness: get_embedding has failed at the second document of a batch,
\* after the first one was embedded, and the table is as it was.
C11_Witness ==
    /\ last.kind = "insert_documents"
    /\ last.cause = "embedding"
    /\ last.embedded >= 1
    /\ Len(last.ids) >= 2
    /\ rows[last.table] = last.before

\* C12 (as claimed): in every reachable state no table holds two records
\* with the same id.
C12_IdsUniquePerTable ==
    \A t \in Tables, id \in DocIds :
        SumOver(rows[t], {r \in RowKinds : IdOf(r) = id}) <= 1

\* The rank of an id in the vector list (its first), past the end if the
\* list does not hold it.
VectorRank(id) ==
    LET ids == RowIds(last.vector_results)
        S == {i \in 1..Len(ids) : ids[i] = id}
    IN IF S = {} THEN Len(ids) + 1 ELSE CHOOSE i \in S : \A j \in S : i <= j

\* The order of the identifiers as strings: "a" < "placeholder".
IdBefore(x, y) == x = "a" /\ y = "placeholder"

\* C13 (as claimed): the items of a successful hybrid_search with alpha in
\* [0,1] are in descending order of fused score; of two items with equal
\* score the one with the lower rank in the vector list comes first (an id of
\* the vector list before one that is not in it); and of two items still
\* tied the one with the smaller identifier comes first.
C13_OrderedByScoreVectorRankId ==
    (HybridOk /\ last.alpha2 \in ValidAlpha2s) =>
        \A i, j \in 1..Len(last.results) :
            i < j =>
               LET x == last.results[i]
                   y == last.results[j]
               IN \/ x.score > y.score
                  \/ /\ x.score = y.score
                     /\ VectorRank(x.id) < VectorRank(y.id)
                  \/ /\ x.score = y.score
                     /\ VectorRank(x.id) = VectorRank(y.id)
                     /\ IdBefore(x.id, y.id)

\* C14 (as claimed): a hybrid_search whose embedding call or whose store call
\* fails, the full-text query included, answers with an error; it answers
\* 200 after a failure only when the failure is the store's report that the
\* table has no full-text search.
C14_OnlyUnsupportedFtsAbsorbed ==
    Hybrid =>
        /\ last.cause \in {"embedding", "store", "table_exists"}
              => last.status >= 400
        /\ last.fts = "store" => last.status >= 400
        /\ (last.status = 200 /\ last.fts # "ok") => last.fts = "unsupported"

\* What vector_search answers for the table, query and limit of the
\* hybrid_search just answered: the store's limit nearest rows, which are
\* the first limit of the limit * 2 nearest rows it gave hybrid_search.
VectorSearchOfLast == PlainItems(Take(last.vector_results, last.limit))

\* C15 (as claimed): a successful hybrid_search with alpha = 0 returns the ids
\* that vector_search returns for the same table, query and limit, in the
\* same order, whatever the full-text query did.  (The table searched holds
\* user rows only.)
C15_VectorSearchIsHybridAlphaZero ==
    (HybridOk /\ last.alpha2 = 0 /\ last.before[SeedRow] = 0) =>
        ItemIds(last.results) = ItemIds(VectorSearchOfLast)

\* The 1-based positions of an id in a list of rows.
Positions(list, id) == {i \in 1..Len(list) : IdOf(list[i]) = id}

\* Whether `component` is what a document at one of the positions pos of a
\* list contributes under `weight2` (twice the weight): (1/(i+1)) * weight at
\* 0-based position i, and 0 for a document that is not in the list.
IsRankComponent(component, pos, weight2) ==
    IF pos = {} THEN component = 0
    ELSE \E p \in pos : component * p = ScoreScale * weight2

\* C16: every item of a successful hybrid_search carries the score
\* vector_component + keyword_component, where the vector component is
\* (1/(i+1)) * (1-alpha) for a document at 0-based position i of the vector
\* list and 0 for one that is not in it, and the keyword component is
\* (1/(j+1)) * alpha for a document at 0-based position j of the keyword list
\* and 0 for one that is not in it.  (Of an id that a list holds more than
\* once, one of its positions counts.)
C16_ScoreIsSumOfRankComponents ==
    HybridOk =>
        \A n \in 1..Len(last.results) :
            LET x == last.results[n] IN
            /\ x.score = x.vector_score + x.keyword_score
            /\ IsRankComponent(x.vector_score,
                               Positions(last.vector_results, x.id),
                               2 - last.alpha2)
            /\ IsRankComponent(x.keyword_score,
                               Positions(last.keyword_results, x.id),
                               last.alpha2)

\* C16 witness: alpha = 1/2, no list holds an id twice, one item is in both
\* lists, past the first place of one of them, and carries both components;
\* another item is in one list only.
C16_Witness ==
    /\ HybridOk
    /\ last.alpha2 = 1
    /\ NoDuplicates(RowIds(last.vector_results))
    /\ NoDuplicates(RowIds(last.keyword_results))
    /\ \E n \in 1..Len(last.results) :
          LET x == last.results[n] IN
          /\ \/ 1 \notin Positions(last.vector_results, x.id)
             \/ 1 \notin Positions(last.keyword_results, x.id)
          /\ x.vector_score > 0
          /\ x.keyword_score > 0
    /\ \E n \in 1..Len(last.results) :
          LET x == last.results[n] IN
          \/ Positions(last.vector_results, x.id) = {}
          \/ Positions(last.keyword_results, x.id) = {}

=============================================================================
